---- MODULE Spec2Model ----
(***************************************************************************)
(* VRM action server (src/main.py): capability-aware mapping of an action  *)
(* request to expressions and bone rotations.                              *)
(*                                                                         *)
(* Number representation.  The source works on floats; the model is fixed  *)
(* point.  Template values and base rotations are integers in hundredths   *)
(* (-1.57 is -157), an intensity is an integer in tenths (0.7 is 7), and   *)
(* every product value * intensity is therefore an integer in thousandths  *)
(* (-1.57 * 0.7 is -1099).  Clamp limits are written in thousandths.       *)
(*                                                                         *)
(* Name lists.  capabilities.expressions and capabilities.bones are lists  *)
(* in the source, but the code only ever tests membership in them ("in"),  *)
(* so they are modelled by the set of their elements.                      *)
(***************************************************************************)
EXTENDS Integers, Sequences, FiniteSets, TLC

VARIABLES call, ret

vars == <<call, ret>>

(***************************************************************************)
(* Python values                                                           *)
(***************************************************************************)

\* An Optional value is modelled as a sequence of length at most one: None is
\* Python's None, Some(x) is the value x, and Get(o) is the value held.
None == <<>>

Some(x) == <<x>>

Get(o) == o[1]

\* One character of str.lower(): an upper-case ASCII letter becomes its
\* lower-case letter, anything else is kept.
LowerChar(c) ==
    CASE c = "A" -> "a" [] c = "B" -> "b" [] c = "C" -> "c" [] c = "D" -> "d"
      [] c = "E" -> "e" [] c = "F" -> "f" [] c = "G" -> "g" [] c = "H" -> "h"
      [] c = "I" -> "i" [] c = "J" -> "j" [] c = "K" -> "k" [] c = "L" -> "l"
      [] c = "M" -> "m" [] c = "N" -> "n" [] c = "O" -> "o" [] c = "P" -> "p"
      [] c = "Q" -> "q" [] c = "R" -> "r" [] c = "S" -> "s" [] c = "T" -> "t"
      [] c = "U" -> "u" [] c = "V" -> "v" [] c = "W" -> "w" [] c = "X" -> "x"
      [] c = "Y" -> "y" [] c = "Z" -> "z"
      [] OTHER -> c

RECURSIVE Lower(_)
\* str.lower()
Lower(s) ==
    IF Len(s) = 0 THEN ""
    ELSE LowerChar(SubSeq(s, 1, 1)) \o Lower(SubSeq(s, 2, Len(s)))

\* Python's substring test: sub in s
Contains(sub, s) ==
    \E i \in 0..(Len(s) - Len(sub)) : SubSeq(s, i + 1, i + Len(sub)) = sub

\* str(x) of a float x in [0, 1] that is a whole number of tenths, as the
\* f-string of the action name formats it: 0.0, 0.1, ..., 0.9, 1.0.
FloatStr(tenths) ==
    ToString(tenths \div 10) \o "." \o ToString(tenths % 10)

\* dict.get(key, default)
DictGet(d, key, default) ==
    IF key \in DOMAIN d THEN d[key] ELSE default

(***************************************************************************)
(* Static tables                                                           *)
(***************************************************************************)

\* Predefined action templates; values and rotations in hundredths.
ACTION_TEMPLATES ==
    [ wave_hello |->
        [ expressions |-> << [name |-> "happy", value |-> 70] >>,
          bone_transforms |->
            << [bone_name |-> "rightUpperArm", rotation |-> <<0, 0, -157>>],
               [bone_name |-> "rightLowerArm", rotation |-> <<0, 0, -50>>] >> ],
      dance_basic |->
        [ expressions |-> << [name |-> "happy", value |-> 80] >>,
          bone_transforms |->
            << [bone_name |-> "leftUpperArm", rotation |-> <<0, 0, 100>>],
               [bone_name |-> "rightUpperArm", rotation |-> <<0, 0, -100>>],
               [bone_name |-> "spine", rotation |-> <<0, 30, 0>>] >> ],
      point_finger |->
        [ bone_transforms |->
            << [bone_name |-> "rightUpperArm", rotation |-> <<0, -50, -120>>],
               [bone_name |-> "rightLowerArm", rotation |-> <<0, 0, -30>>] >> ],
      bow |->
        [ expressions |-> << [name |-> "neutral", value |-> 100] >>,
          bone_transforms |->
            << [bone_name |-> "spine", rotation |-> <<80, 0, 0>>],
               [bone_name |-> "neck", rotation |-> <<30, 0, 0>>] >> ],
      clap |->
        [ expressions |-> << [name |-> "happy", value |-> 60] >>,
          bone_transforms |->
            << [bone_name |-> "rightUpperArm", rotation |-> <<0, -80, -100>>],
               [bone_name |-> "leftUpperArm", rotation |-> <<0, 80, 100>>],
               [bone_name |-> "rightLowerArm", rotation |-> <<0, 0, -120>>],
               [bone_name |-> "leftLowerArm", rotation |-> <<0, 0, 120>>] >> ] ]

STANDARD_EXPRESSIONS ==
    { "neutral", "happy", "angry", "sad", "relaxed", "surprised",
      "blink", "blink_l", "blink_r", "look_up", "look_down",
      "look_left", "look_right", "a", "i", "u", "e", "o" }

STANDARD_BONES ==
    { "hips", "spine", "chest", "neck", "head",
      "leftShoulder", "leftUpperArm", "leftLowerArm", "leftHand",
      "rightShoulder", "rightUpperArm", "rightLowerArm", "rightHand",
      "leftUpperLeg", "leftLowerLeg", "leftFoot",
      "rightUpperLeg", "rightLowerLeg", "rightFoot" }

\* Expression fallback mappings, each list in priority order.
fallback_map ==
    [ happy       |-> <<"joy", "smile", "pleased", "cheerful">>,
      sad         |-> <<"sorrow", "cry", "depressed", "down">>,
      angry       |-> <<"mad", "irritated", "upset", "furious">>,
      surprised   |-> <<"shock", "amazed", "wow", "astonished">>,
      neutral     |-> <<"default", "rest", "normal">>,
      blink       |-> <<"blink_both", "eye_close">>,
      look_left   |-> <<"eye_left", "gaze_left">>,
      look_right  |-> <<"eye_right", "gaze_right">>,
      look_up     |-> <<"eye_up", "gaze_up">>,
      look_down   |-> <<"eye_down", "gaze_down">> ]

\* Bone alternative mappings, each list in priority order.
bone_alternatives ==
    [ rightUpperArm |-> <<"rightArm", "rightShoulder">>,
      leftUpperArm  |-> <<"leftArm", "leftShoulder">>,
      rightLowerArm |-> <<"rightForearm", "rightElbow">>,
      leftLowerArm  |-> <<"leftForearm", "leftElbow">>,
      spine         |-> <<"chest", "upperChest", "torso">>,
      neck          |-> <<"head", "spine">>,
      rightHand     |-> <<"rightWrist">>,
      leftHand      |-> <<"leftWrist">> ]

finger_names == <<"Thumb", "Index", "Middle", "Ring", "Little">>

finger_segments == <<1, 2, 3>>

(***************************************************************************)
(* Synonym resolver                                                        *)
(***************************************************************************)

\* Faulty variant: the first name of the list is taken without the
\* availability test.
FirstAvailableUnchecked(names, available) ==
    IF names = <<>> THEN None ELSE Some(Head(names))

\* Faulty variant: the loop is not left at the first hit, every available
\* name is taken.
AllAvailable(names, available) ==
    LET IsAvailable(x) == x \in available
    IN  SelectSeq(names, IsAvailable)

RECURSIVE FirstAvailable(_, _)
\* for x in names: if x in available: <take x and leave the loop>
\* The result is Some(x) for the x taken, None when the loop runs to its end.
FirstAvailable(names, available) ==
    IF names = <<>> THEN None
    ELSE IF Head(names) \in available THEN Some(Head(names))
    ELSE FirstAvailable(Tail(names), available)

map_expression_with_fallback(target_expr, available_exprs) ==
    IF target_expr \in available_exprs THEN Some(target_expr)
    ELSE FirstAvailable(DictGet(fallback_map, target_expr, <<>>), available_exprs)

(***************************************************************************)
(* Bone resolver                                                           *)
(***************************************************************************)

\* "right" if "right" in hand_bone.lower() else "left"
hand_prefix(hand_bone) ==
    IF Contains("right", Lower(hand_bone)) THEN "right" ELSE "left"

RECURSIVE FingerLoop(_, _, _, _)
\* The nested loops of _get_finger_bones from finger f, segment i on: outer
\* loop over finger_names, inner loop over the segments 1, 2, 3.
FingerLoop(prefix, f, i, available_bones) ==
    IF f > Len(finger_names) THEN <<>>
    ELSE IF i > Len(finger_segments)
         THEN FingerLoop(prefix, f + 1, 1, available_bones)
    ELSE LET bone_name == prefix \o finger_names[f] \o ToString(finger_segments[i])
             rest == FingerLoop(prefix, f, i + 1, available_bones)
         IN  IF bone_name \in available_bones THEN <<bone_name>> \o rest ELSE rest

get_finger_bones(hand_bone, available_bones) ==
    FingerLoop(hand_prefix(hand_bone), 1, 1, available_bones)

\* Faulty variant: the alternatives are tried although the target matched.
TryAlternativesAlways(mapped_bones, target_bone, available_bones) ==
    mapped_bones \o FirstAvailable(DictGet(bone_alternatives, target_bone, <<>>),
                                   available_bones)

\* if not mapped_bones: for alt in alternatives: if alt in available: append; break
TryAlternatives(mapped_bones, target_bone, available_bones) ==
    IF mapped_bones = <<>>
    THEN mapped_bones \o FirstAvailable(DictGet(bone_alternatives, target_bone, <<>>),
                                        available_bones)
    ELSE mapped_bones

\* Faulty variant: the has_finger_bones flag is not consulted.
AddsFingerBonesIgnoringFlag(target_bone, capabilities) ==
    target_bone \in {"rightHand", "leftHand"}

\* if target_bone in ["rightHand", "leftHand"] and capabilities.has_finger_bones
AddsFingerBones(target_bone, capabilities) ==
    target_bone \in {"rightHand", "leftHand"} /\ capabilities.has_finger_bones

map_bone_with_alternatives(target_bone, available_bones, capabilities) ==
    LET direct == IF target_bone \in available_bones THEN <<target_bone>> ELSE <<>>
        mapped == TryAlternatives(direct, target_bone, available_bones)
    IN  IF AddsFingerBones(target_bone, capabilities)
        THEN mapped \o get_finger_bones(target_bone, available_bones)
        ELSE mapped

(***************************************************************************)
(* Rotation adapter                                                        *)
(***************************************************************************)

\* max(lo, min(hi, r))
Clamp(lo, hi, r) ==
    LET m == IF hi < r THEN hi ELSE r
    IN  IF lo > m THEN lo ELSE m

\* Faulty variant: the substring tests are made on bone_name as written,
\* without lower().
BoneCategoryCaseSensitive(bone_name) ==
    IF Contains("finger", bone_name) \/ Contains("thumb", bone_name) THEN "finger"
    ELSE IF Contains("neck", bone_name) THEN "neck"
    ELSE IF Contains("spine", bone_name) THEN "spine"
    ELSE "other"

\* The category test of the if / elif chain: the first branch whose
\* substring test on bone_name.lower() succeeds.
BoneCategory(bone_name) ==
    LET lowered == Lower(bone_name)
    IN  IF Contains("finger", lowered) \/ Contains("thumb", lowered) THEN "finger"
        ELSE IF Contains("neck", lowered) THEN "neck"
        ELSE IF Contains("spine", lowered) THEN "spine"
        ELSE "other"

\* base_rotation in hundredths, intensity in tenths, result in thousandths.
adapt_rotation_for_bone(base_rotation, bone_name, intensity) ==
    LET adapted == [k \in 1..Len(base_rotation) |-> base_rotation[k] * intensity]
        category == BoneCategory(bone_name)
    IN  IF category = "finger"
        THEN [k \in 1..Len(adapted) |-> Clamp(-500, 500, adapted[k])]
        ELSE IF category = "neck"
        THEN [adapted EXCEPT ![1] = Clamp(-800, 800, adapted[1]),
                             ![2] = Clamp(-1200, 1200, adapted[2])]
        ELSE IF category = "spine"
        THEN [adapted EXCEPT ![1] = Clamp(-1000, 1000, adapted[1])]
        ELSE adapted

(***************************************************************************)
(* Fallback synthesizer                                                    *)
(***************************************************************************)

BoneTransform(bone_name, rotation, position) ==
    [bone_name |-> bone_name, rotation |-> rotation, position |-> position]

\* Faulty variant: the dance/move test comes before the wave/hello test.
FallbackBranchDanceFirst(action_type) ==
    IF Contains("dance", action_type) \/ Contains("move", action_type) THEN "dance"
    ELSE IF Contains("wave", action_type) \/ Contains("hello", action_type) THEN "wave"
    ELSE IF Contains("point", action_type) \/ Contains("indicate", action_type) THEN "point"
    ELSE "none"

\* The keyword branch taken for the lower-cased action type.
FallbackBranch(action_type) ==
    IF Contains("wave", action_type) \/ Contains("hello", action_type) THEN "wave"
    ELSE IF Contains("dance", action_type) \/ Contains("move", action_type) THEN "dance"
    ELSE IF Contains("point", action_type) \/ Contains("indicate", action_type) THEN "point"
    ELSE "none"

RECURSIVE DanceArms(_, _, _)
\* for arm in arms: if arm in bones: append [0, 0, side_mult * 1.0 * intensity]
DanceArms(arms, bones, intensity) ==
    IF arms = <<>> THEN <<>>
    ELSE LET arm == Head(arms)
             side_mult == IF Contains("right", arm) THEN 1 ELSE -1
             rest == DanceArms(Tail(arms), bones, intensity)
         IN  IF arm \in bones
             THEN <<BoneTransform(arm, <<0, 0, side_mult * 100 * intensity>>, None)>> \o rest
             ELSE rest

\* Rotations in thousandths: -1.57 * intensity is -157 * intensity.
generate_fallback_action(request, capabilities) ==
    LET action_type == Lower(request.action_type)
        intensity == request.intensity
        branch == FallbackBranch(action_type)
    IN  IF branch = "wave"
        THEN IF "rightUpperArm" \in capabilities.bones
             THEN <<BoneTransform("rightUpperArm", <<0, 0, -157 * intensity>>, None)>>
             ELSE <<>>
        ELSE IF branch = "dance"
        THEN (IF "spine" \in capabilities.bones
              THEN <<BoneTransform("spine", <<0, 30 * intensity, 0>>, None)>>
              ELSE <<>>)
             \o DanceArms(<<"rightUpperArm", "leftUpperArm">>, capabilities.bones, intensity)
        ELSE IF branch = "point"
        THEN IF "rightUpperArm" \in capabilities.bones
             THEN <<BoneTransform("rightUpperArm",
                                  <<0, -50 * intensity, -120 * intensity>>, None)>>
             ELSE <<>>
        ELSE <<>>

(***************************************************************************)
(* Capability descriptor                                                   *)
(***************************************************************************)

VRMCapabilities(expressions, bones, has_finger_bones, has_toe_bones, has_spring_bones) ==
    [ expressions      |-> expressions,
      bones            |-> bones,
      has_finger_bones |-> has_finger_bones,
      has_toe_bones    |-> has_toe_bones,
      has_spring_bones |-> has_spring_bones ]

\* "leftThumb1" in bones or "rightThumb1" in bones
DerivedFingerFlag(bones) == "leftThumb1" \in bones \/ "rightThumb1" \in bones

\* "leftToes" in bones or "rightToes" in bones
DerivedToeFlag(bones) == "leftToes" \in bones \/ "rightToes" \in bones

\* The arguments are Optional: None selects the standard set.
get_model_capabilities(expressions, bones) ==
    LET exprs == IF expressions = None THEN STANDARD_EXPRESSIONS ELSE Get(expressions)
        bs    == IF bones = None THEN STANDARD_BONES ELSE Get(bones)
    IN  VRMCapabilities(exprs, bs, DerivedFingerFlag(bs), DerivedToeFlag(bs), TRUE)

(***************************************************************************)
(* Action composer                                                         *)
(***************************************************************************)

\* intensity: float = 0.5, duration: float = 2.0 (seconds), model_capabilities
\* Optional.  intensity is in tenths.
ActionRequest(action_type, intensity, duration, model_capabilities) ==
    [ action_type        |-> action_type,
      intensity          |-> intensity,
      duration           |-> duration,
      model_capabilities |-> model_capabilities ]

\* The default of ActionRequest.duration, 2.0 seconds.
DefaultDuration == 2

\* The fixed intensity of get_action_sequence, 0.7, in tenths.
SequenceIntensity == 7

Raised(kind, message) == [error |-> kind, message |-> message]

IsError(r) == "error" \in DOMAIN r

\* Faulty variant: a descriptor without bones is treated as missing.
CapabilitiesMissingOrEmpty(request) ==
    \/ request.model_capabilities = None
    \/ Get(request.model_capabilities).bones = {}

\* if request.model_capabilities is None
CapabilitiesMissing(request) == request.model_capabilities = None

\* ExpressionData.value: Field(ge=0.0, le=1.0), the value in thousandths.
ExpressionValueValid(value) == 0 <= value /\ value <= 1000

RECURSIVE MapExpressions(_, _, _)
\* The expression loop: a resolved entry is appended with value * intensity,
\* an unresolved one is skipped.
MapExpressions(entries, available_exprs, intensity) ==
    IF entries = <<>> THEN <<>>
    ELSE LET expr_data == Head(entries)
             mapped_expr == map_expression_with_fallback(expr_data.name, available_exprs)
             rest == MapExpressions(Tail(entries), available_exprs, intensity)
         IN  IF mapped_expr # None /\ Get(mapped_expr) # ""
             THEN <<[name |-> Get(mapped_expr), value |-> expr_data.value * intensity]>>
                  \o rest
             ELSE rest

RECURSIVE TransformsFor(_, _, _)
\* The inner loop: one BoneTransform per mapped bone, with the adapted rotation
\* and the template entry's position passed through.
TransformsFor(mapped_bones, bone_data, intensity) ==
    IF mapped_bones = <<>> THEN <<>>
    ELSE <<BoneTransform(Head(mapped_bones),
                         adapt_rotation_for_bone(bone_data.rotation, Head(mapped_bones),
                                                 intensity),
                         DictGet(bone_data, "position", None))>>
         \o TransformsFor(Tail(mapped_bones), bone_data, intensity)

RECURSIVE MapBones(_, _, _)
\* The outer bone loop over the template's bone_transforms.
MapBones(entries, capabilities, intensity) ==
    IF entries = <<>> THEN <<>>
    ELSE LET bone_data == Head(entries)
             mapped_bones == map_bone_with_alternatives(bone_data.bone_name,
                                                        capabilities.bones, capabilities)
         IN  TransformsFor(mapped_bones, bone_data, intensity)
             \o MapBones(Tail(entries), capabilities, intensity)

\* Faulty variant: the synthesizer is consulted for every action type.
UsesFallbackAlways(template) == TRUE

\* if not template
UsesFallback(template) == DOMAIN template = {}

\* request.action_type in ["dance_basic", "idle_animation"]
Loops(action_type) == action_type \in {"dance_basic", "idle_animation"}

\* f"{request.action_type}_{request.intensity}"
ActionName(action_type, intensity) == action_type \o "_" \o FloatStr(intensity)

generate_vrm_action(request) ==
    IF CapabilitiesMissing(request)
    THEN Raised("ValueError",
                "Model capabilities must be provided for accurate action generation")
    ELSE
      LET capabilities == Get(request.model_capabilities)
          template == DictGet(ACTION_TEMPLATES, request.action_type, <<>>)
          expressions == MapExpressions(DictGet(template, "expressions", <<>>),
                                        capabilities.expressions, request.intensity)
          mapped == MapBones(DictGet(template, "bone_transforms", <<>>),
                             capabilities, request.intensity)
          bone_transforms ==
              IF UsesFallback(template)
              THEN mapped \o generate_fallback_action(request, capabilities)
              ELSE mapped
      IN  IF \E k \in 1..Len(expressions) : ~ExpressionValueValid(expressions[k].value)
          THEN Raised("ValidationError", "value")
          ELSE [ name            |-> ActionName(request.action_type, request.intensity),
                 duration        |-> request.duration,
                 expressions     |-> expressions,
                 bone_transforms |-> bone_transforms,
                 loop            |-> Loops(request.action_type) ]

RECURSIVE SequenceLoopPrepend(_, _, _)
\* Faulty variant: each action is put at the front of the sequence.
SequenceLoopPrepend(action_names, model_capabilities, sequence) ==
    IF action_names = <<>> THEN sequence
    ELSE LET request == ActionRequest(Head(action_names), 7, 2, model_capabilities)
             action == generate_vrm_action(request)
         IN  IF "error" \in DOMAIN action THEN action
             ELSE SequenceLoopPrepend(Tail(action_names), model_capabilities,
                                      <<action>> \o sequence)

RECURSIVE SequenceLoop(_, _, _)
\* The loop of get_action_sequence: one request per name, each appended to
\* the sequence; an exception of generate_vrm_action leaves the loop and is
\* the outcome of the call.
SequenceLoop(action_names, model_capabilities, sequence) ==
    IF action_names = <<>> THEN sequence
    ELSE LET request == ActionRequest(Head(action_names), SequenceIntensity,
                                      DefaultDuration, model_capabilities)
             action == generate_vrm_action(request)
         IN  IF IsError(action) THEN action
             ELSE SequenceLoop(Tail(action_names), model_capabilities,
                               Append(sequence, action))

get_action_sequence(action_names, model_capabilities) ==
    SequenceLoop(action_names, model_capabilities, <<>>)

(***************************************************************************)
(* Inputs                                                                  *)
(***************************************************************************)

\* Largest number of bone names in a descriptor given to a tool.
MaxBones == 2

\* Largest number of expression names in a descriptor given to a tool.
MaxExprs == 1

\* Longest action_names list given to get_action_sequence.
MaxSeqLen == 2

\* Largest number of available bones in a direct call of the bone resolver.
MaxAvailable == 3

\* Base rotation components range over -MaxRotSteps..MaxRotSteps steps of 0.4 rad.
MaxRotSteps == 4

UpTo(universe, n) == {s \in SUBSET universe : Cardinality(s) <= n}

SeqsUpTo(S, n) == UNION {[1..k -> S] : k \in 0..n}

Optional(S) == {None} \cup {Some(x) : x \in S}

\* Action types: the five templates, names with no template and no keyword,
\* and names with keywords of one or several fallback categories.
TemplateTypes == {"wave_hello", "dance_basic", "point_finger", "bow", "clap"}

FallbackTypes ==
    { "unknown_action_xyz_dance", "Hello", "wave_dance", "point_wave", "move_point",
      "indicate", "DANCE", "idle_animation", "jump", "" }

ActionTypes == TemplateTypes \cup FallbackTypes

Intensities == 0..10

\* The action types given to the tools: every template, and untemplated
\* names with one keyword, two keywords and none.
ToolActionTypes ==
    TemplateTypes \cup {"unknown_action_xyz_dance", "point_wave", "idle_animation", "jump"}

ToolIntensities == {0, SequenceIntensity, 10}

Durations == {1, DefaultDuration}

ToolExprs == {"happy", "joy", "neutral", "rest"}

ToolBones ==
    { "rightUpperArm", "rightLowerArm", "leftUpperArm", "spine", "neck",
      "rightArm", "chest", "leftThumb1", "rightToes" }

\* The descriptors a caller can build: has_finger_bones and has_toe_bones are
\* plain fields and take either value; has_spring_bones, which no code reads,
\* is kept at TRUE.
Descriptors(exprSets, boneSets) ==
    { VRMCapabilities(e, b, f, t, p) :
        e \in exprSets, b \in boneSets, f \in BOOLEAN, t \in BOOLEAN, p \in {TRUE} }

ToolDescriptors == Descriptors(UpTo(ToolExprs, MaxExprs), UpTo(ToolBones, MaxBones))

SequenceTypes == {"wave_hello", "bow", "unknown_action_xyz_dance", "jump"}

SequenceDescriptors ==
    Descriptors(UpTo({"happy", "rest"}, MaxExprs),
                UpTo({"rightUpperArm", "rightArm", "spine", "head"}, MaxBones))

ResolverExprTargets == {"happy", "neutral", "sad", "joy", "wink"}

ResolverExprs == {"happy", "joy", "smile", "cheerful", "neutral", "rest", "sad", "cry"}

ResolverBoneTargets ==
    { "rightUpperArm", "rightLowerArm", "spine", "neck", "head",
      "rightHand", "leftHand", "rightWrist" }

ResolverBones ==
    { "rightHand", "leftHand", "rightWrist", "leftWrist",
      "rightThumb1", "rightThumb2", "rightIndex1", "rightLittle3",
      "leftThumb1", "leftIndex2",
      "rightUpperArm", "rightArm", "rightShoulder",
      "spine", "chest", "upperChest", "torso", "neck", "head" }

\* Bone names of every category of the rotation adapter, in both cases and
\* with the keywords of two categories at once.
RotationBones ==
    { "rightThumb1", "LeftThumb2", "indexFinger", "neck", "Neck", "neckSpine",
      "thumbNeck", "spine", "upperSpine", "SPINE", "rightUpperArm", "head" }

RotationValues == {40 * k : k \in -MaxRotSteps..MaxRotSteps}

FallbackBones == {"rightUpperArm", "leftUpperArm", "spine", "rightArm", "chest"}

(***************************************************************************)
(* The server: one call at a time, each handled to completion              *)
(***************************************************************************)

Init ==
    /\ call = None
    /\ ret = None

\* No call is being handled.
Idle == call = None

Invoke(fn, args, result) ==
    /\ call' = Some([fn |-> fn, args |-> args])
    /\ ret' = Some(result)

\* The result is handed to the caller; the server holds no state between calls.
Return ==
    /\ ~Idle
    /\ call' = None
    /\ ret' = None

GetModelCapabilities ==
    /\ Idle
    /\ \E expressions \in Optional(UpTo(ToolExprs, MaxExprs)),
          bones \in Optional(UpTo(ToolBones, MaxBones)) :
           Invoke("get_model_capabilities",
                  [expressions |-> expressions, bones |-> bones],
                  get_model_capabilities(expressions, bones))

GenerateVrmAction ==
    /\ Idle
    /\ \E action_type \in ToolActionTypes, intensity \in ToolIntensities,
          duration \in Durations, model_capabilities \in Optional(ToolDescriptors) :
           LET request == ActionRequest(action_type, intensity, duration, model_capabilities)
           IN  Invoke("generate_vrm_action", [request |-> request],
                      generate_vrm_action(request))

GetActionSequence ==
    /\ Idle
    /\ \E action_names \in SeqsUpTo(SequenceTypes, MaxSeqLen),
          model_capabilities \in Optional(SequenceDescriptors) :
           Invoke("get_action_sequence",
                  [action_names |-> action_names, model_capabilities |-> model_capabilities],
                  get_action_sequence(action_names, model_capabilities))

Next ==
    \/ GetModelCapabilities
    \/ GenerateVrmAction
    \/ GetActionSequence
    \/ Return

Spec == Init /\ [][Next]_vars

(***************************************************************************)
(* Direct calls of the resolvers                                           *)
(***************************************************************************)

MapExpressionWithFallback ==
    /\ Idle
    /\ \E target_expr \in ResolverExprTargets, available_exprs \in SUBSET ResolverExprs :
           Invoke("_map_expression_with_fallback",
                  [target_expr |-> target_expr, available_exprs |-> available_exprs],
                  map_expression_with_fallback(target_expr, available_exprs))

MapBoneWithAlternatives ==
    /\ Idle
    /\ \E target_bone \in ResolverBoneTargets,
          capabilities \in Descriptors({{}}, UpTo(ResolverBones, MaxAvailable)) :
           Invoke("_map_bone_with_alternatives",
                  [target_bone |-> target_bone, available_bones |-> capabilities.bones,
                   capabilities |-> capabilities],
                  map_bone_with_alternatives(target_bone, capabilities.bones, capabilities))

NextResolver ==
    \/ MapExpressionWithFallback
    \/ MapBoneWithAlternatives
    \/ Return

SpecResolver == Init /\ [][NextResolver]_vars

(***************************************************************************)
(* Direct calls of the rotation adapter                                    *)
(***************************************************************************)

AdaptRotationForBone ==
    /\ Idle
    /\ \E x \in RotationValues, y \in RotationValues, z \in RotationValues,
          bone_name \in RotationBones, intensity \in Intensities :
           Invoke("_adapt_rotation_for_bone",
                  [base_rotation |-> <<x, y, z>>, bone_name |-> bone_name,
                   intensity |-> intensity],
                  adapt_rotation_for_bone(<<x, y, z>>, bone_name, intensity))

NextRotation ==
    \/ AdaptRotationForBone
    \/ Return

SpecRotation == Init /\ [][NextRotation]_vars

(***************************************************************************)
(* Direct calls of the fallback synthesizer                                *)
(***************************************************************************)

GenerateFallbackAction ==
    /\ Idle
    /\ \E action_type \in ActionTypes, intensity \in Intensities,
          capabilities \in Descriptors({{}}, SUBSET FallbackBones) :
           LET request == ActionRequest(action_type, intensity, DefaultDuration,
                                        Some(capabilities))
           IN  Invoke("_generate_fallback_action",
                      [request |-> request, capabilities |-> capabilities],
                      generate_fallback_action(request, capabilities))

NextFallback ==
    \/ GenerateFallbackAction
    \/ Return

SpecFallback == Init /\ [][NextFallback]_vars

(***************************************************************************)
(* Properties                                                              *)
(***************************************************************************)

\* The call being handled is a call of fn.
Handled(fn) == ~Idle /\ Get(call).fn = fn

Args == Get(call).args

Result == Get(ret)

HandBones == {"leftHand", "rightHand"}

\* The earliest entry of the alternative list of target that is available,
\* as a list of at most one name.
EarliestAlternative(target, available) ==
    LET alts == IF target \in DOMAIN bone_alternatives
                THEN bone_alternatives[target] ELSE <<>>
        hits == {k \in 1..Len(alts) : alts[k] \in available}
    IN  IF hits = {} THEN <<>>
        ELSE <<alts[CHOOSE k \in hits : \A j \in hits : k <= j]>>

\* The fifteen joint names of one side, digit-major then joint-minor.
JointOrder(side) ==
    [k \in 1..15 |->
        side \o <<"Thumb", "Index", "Middle", "Ring", "Little">>[((k - 1) \div 3) + 1]
             \o ToString(((k - 1) % 3) + 1)]

AvailableJoints(side, available) ==
    LET IsAvailable(x) == x \in available
    IN  SelectSeq(JointOrder(side), IsAvailable)

\* C1: generate_vrm_action raises the missing-capabilities error exactly when
\* the request carries no capability descriptor; with any descriptor it
\* returns an action record, whatever the action type and intensity, and an
\* expression or bone it cannot resolve is left out of the record.
C1_FailsExactlyWithoutCapabilities ==
    Handled("generate_vrm_action") =>
        LET request == Args.request
        IN  IF request.model_capabilities = None
            THEN /\ IsError(Result)
                 /\ Result.error = "ValueError"
            ELSE /\ ~IsError(Result)
                 /\ DOMAIN Result = {"name", "duration", "expressions",
                                     "bone_transforms", "loop"}
                 /\ Result.duration = request.duration
                 /\ Len(Result.expressions)
                      <= Len(DictGet(DictGet(ACTION_TEMPLATES, request.action_type, <<>>),
                                     "expressions", <<>>))

\* C1 witness: a templated action for a descriptor with no names at all is
\* answered by an empty record, not an error.
C1_Witness ==
    /\ Handled("generate_vrm_action")
    /\ Args.request.action_type = "wave_hello"
    /\ Args.request.model_capabilities # None
    /\ Get(Args.request.model_capabilities).bones = {}
    /\ Get(Args.request.model_capabilities).expressions = {}
    /\ ~IsError(Result)
    /\ Result.expressions = <<>>
    /\ Result.bone_transforms = <<>>

\* C2 as stated: a desired name that is available is returned unchanged by
\* the synonym resolver and as the one-element list [desired] by the bone
\* resolver, hand bones and every flag value included.
C2_ExactMatchAlone ==
    /\ Handled("_map_expression_with_fallback") /\ Args.target_expr \in Args.available_exprs
         => Result = Some(Args.target_expr)
    /\ Handled("_map_bone_with_alternatives") /\ Args.target_bone \in Args.available_bones
         => Result = <<Args.target_bone>>

\* C2 amended: a desired name that is available is returned unchanged by the
\* synonym resolver; the bone resolver's list starts with desired and takes
\* no alternative, and it is exactly [desired] unless desired is a hand bone
\* and has_finger_bones is true, when the available finger joints of that
\* hand's side follow it.
C2_ExactMatchFirst ==
    /\ Handled("_map_expression_with_fallback") /\ Args.target_expr \in Args.available_exprs
         => Result = Some(Args.target_expr)
    /\ Handled("_map_bone_with_alternatives") /\ Args.target_bone \in Args.available_bones
         => /\ Result # <<>>
            /\ Head(Result) = Args.target_bone
            /\ IF Args.target_bone \in HandBones /\ Args.capabilities.has_finger_bones
               THEN LET side == IF Args.target_bone = "rightHand" THEN "right" ELSE "left"
                    IN  Result = <<Args.target_bone>>
                                   \o AvailableJoints(side, Args.available_bones)
               ELSE Result = <<Args.target_bone>>

\* C2 witness: an available hand bone with finger joints behind it.
C2_Witness ==
    /\ Handled("_map_bone_with_alternatives")
    /\ Args.target_bone = "rightHand"
    /\ Args.available_bones = {"rightHand", "rightThumb1", "rightIndex1"}
    /\ Args.capabilities.has_finger_bones
    /\ Result = <<"rightHand", "rightThumb1", "rightIndex1">>

C3_FingerNames == {"rightThumb1", "LeftThumb2", "indexFinger", "thumbNeck"}

C3_NeckNames == {"neck", "Neck", "neckSpine"}

C3_SpineNames == {"spine", "upperSpine", "SPINE"}

\* C3: the adapted rotation obeys the clamp of the first category whose
\* keyword the bone name contains, whatever its case: finger or thumb, all
\* components within 0.5; else neck, pitch within 0.8, yaw within 1.2 and
\* roll base * intensity; else spine, pitch within 1.0 and the others
\* base * intensity; else every component is base * intensity.
C3_RotationBounds ==
    Handled("_adapt_rotation_for_bone") =>
        LET base == Args.base_rotation
            i == Args.intensity
            out == Result
        IN  /\ Len(out) = 3
            /\ IF Args.bone_name \in C3_FingerNames
               THEN \A k \in 1..3 : -500 <= out[k] /\ out[k] <= 500
               ELSE IF Args.bone_name \in C3_NeckNames
               THEN /\ -800 <= out[1] /\ out[1] <= 800
                    /\ -1200 <= out[2] /\ out[2] <= 1200
                    /\ out[3] = base[3] * i
               ELSE IF Args.bone_name \in C3_SpineNames
               THEN /\ -1000 <= out[1] /\ out[1] <= 1000
                    /\ out[2] = base[2] * i
                    /\ out[3] = base[3] * i
               ELSE \A k \in 1..3 : out[k] = base[k] * i

\* C3 witness: a name with the neck and the spine keyword gets the neck
\* clamp on a pitch beyond both limits.
C3_Witness ==
    /\ Handled("_adapt_rotation_for_bone")
    /\ Args.bone_name = "neckSpine"
    /\ Args.base_rotation[1] * Args.intensity > 1000
    /\ Result[1] = 800

FlagsDerived(capabilities) ==
    /\ capabilities.has_finger_bones
         <=> ("leftThumb1" \in capabilities.bones \/ "rightThumb1" \in capabilities.bones)
    /\ capabilities.has_toe_bones
         <=> ("leftToes" \in capabilities.bones \/ "rightToes" \in capabilities.bones)

\* C4: every capability descriptor the server returns or is given has its
\* finger and toe flags equal to the presence of a thumb-root bone and of a
\* toe bone in its bones.
C4_FlagsDerivedEverywhere ==
    /\ Handled("get_model_capabilities") => FlagsDerived(Result)
    /\ Handled("generate_vrm_action") /\ Args.request.model_capabilities # None
         => FlagsDerived(Get(Args.request.model_capabilities))
    /\ Handled("get_action_sequence") /\ Args.model_capabilities # None
         => FlagsDerived(Get(Args.model_capabilities))

\* C5: with a descriptor supplied, get_action_sequence returns one record per
\* action name, in input order, each the record generate_vrm_action gives for
\* that name alone at intensity 0.7, named '<name>_0.7'.
C5_SequenceIsIndependentCalls ==
    Handled("get_action_sequence") /\ Args.model_capabilities # None =>
        /\ Len(Result) = Len(Args.action_names)
        /\ \A k \in 1..Len(Args.action_names) :
             /\ Result[k] = generate_vrm_action(
                                ActionRequest(Args.action_names[k], 7, 2,
                                              Args.model_capabilities))
             /\ Result[k].name = Args.action_names[k] \o "_0.7"

\* C5 witness: two different action types, answered in input order.
C5_Witness ==
    /\ Handled("get_action_sequence")
    /\ Args.model_capabilities # None
    /\ Args.action_names = <<"unknown_action_xyz_dance", "wave_hello">>
    /\ Get(Args.model_capabilities).bones = {"rightArm", "spine"}
    /\ Len(Result) = 2
    /\ Result[1].name = "unknown_action_xyz_dance_0.7"
    /\ Result[2].name = "wave_hello_0.7"
    /\ Len(Result[1].bone_transforms) = 1
    /\ Result[2].bone_transforms[1].bone_name = "rightArm"

\* C6: every expression name of a returned record is in
\* capabilities.expressions and every bone name is in capabilities.bones,
\* with a template and without one.
C6_NamesAreAvailable ==
    Handled("generate_vrm_action") /\ Args.request.model_capabilities # None =>
        LET capabilities == Get(Args.request.model_capabilities)
        IN  /\ ~IsError(Result)
            /\ \A k \in 1..Len(Result.expressions) :
                 Result.expressions[k].name \in capabilities.expressions
            /\ \A k \in 1..Len(Result.bone_transforms) :
                 Result.bone_transforms[k].bone_name \in capabilities.bones

\* C6 witness: template names replaced by an alternative bone and a synonym.
C6_Witness ==
    /\ Handled("generate_vrm_action")
    /\ Args.request.action_type = "wave_hello"
    /\ Args.request.model_capabilities # None
    /\ Get(Args.request.model_capabilities).bones = {"rightArm", "neck"}
    /\ Get(Args.request.model_capabilities).expressions = {"joy"}
    /\ Len(Result.bone_transforms) = 1
    /\ Result.bone_transforms[1].bone_name = "rightArm"
    /\ Len(Result.expressions) = 1
    /\ Result.expressions[1].name = "joy"

\* C7: for an action type without a template the record has no expression
\* and exactly the synthesizer's transforms; for an action type with a
\* template the record holds the template's resolved transforms and nothing
\* of the synthesizer, and is empty of transforms when no template bone
\* resolves.
C7_FallbackOnlyWithoutTemplate ==
    Handled("generate_vrm_action") /\ Args.request.model_capabilities # None =>
        LET request == Args.request
            capabilities == Get(request.model_capabilities)
        IN  IF request.action_type
                 \notin {"wave_hello", "dance_basic", "point_finger", "bow", "clap"}
            THEN /\ Result.expressions = <<>>
                 /\ Result.bone_transforms = generate_fallback_action(request, capabilities)
            ELSE LET entries == ACTION_TEMPLATES[request.action_type].bone_transforms
                     resolved(k) == map_bone_with_alternatives(entries[k].bone_name,
                                                               capabilities.bones,
                                                               capabilities)
                 IN  /\ Result.bone_transforms
                          = MapBones(entries, capabilities, request.intensity)
                     /\ (\A k \in 1..Len(entries) : resolved(k) = <<>>)
                          => Result.bone_transforms = <<>>

\* C7 witness: a templated type carrying a fallback keyword, with a bone the
\* synthesizer would use, gets the template's transform alone.
C7_Witness ==
    /\ Handled("generate_vrm_action")
    /\ Args.request.action_type = "dance_basic"
    /\ Args.request.intensity = 10
    /\ Args.request.model_capabilities # None
    /\ Get(Args.request.model_capabilities).bones = {"rightUpperArm"}
    /\ Len(Result.bone_transforms) = 1
    /\ Result.bone_transforms[1].rotation = <<0, 0, -1000>>

C8_WaveTypes == {"wave_hello", "Hello", "wave_dance", "point_wave"}

C8_DanceTypes == {"dance_basic", "unknown_action_xyz_dance", "DANCE", "move_point"}

C8_PointTypes == {"point_finger", "indicate"}

C8_Expected(action_type, i, bones) ==
    LET on(bone, rotation) ==
            IF bone \in bones
            THEN <<[bone_name |-> bone, rotation |-> rotation, position |-> None]>>
            ELSE <<>>
    IN  IF action_type \in C8_WaveTypes
        THEN on("rightUpperArm", <<0, 0, -157 * i>>)
        ELSE IF action_type \in C8_DanceTypes
        THEN on("spine", <<0, 30 * i, 0>>)
             \o on("rightUpperArm", <<0, 0, 100 * i>>)
             \o on("leftUpperArm", <<0, 0, -100 * i>>)
        ELSE IF action_type \in C8_PointTypes
        THEN on("rightUpperArm", <<0, -50 * i, -120 * i>>)
        ELSE <<>>

\* C8: the synthesizer emits the transforms of exactly one keyword category
\* of the lower-cased action type, the earliest of wave/hello, dance/move,
\* point/indicate, each transform only for an available bone, and nothing
\* when no keyword matches or the matched category's bones are unavailable.
C8_KeywordPrecedence ==
    Handled("_generate_fallback_action") =>
        Result = C8_Expected(Args.request.action_type, Args.request.intensity,
                             Args.capabilities.bones)

\* C8 witness: wave and dance keywords together, the wave bone missing and
\* the dance bones present: nothing is emitted.
C8_Witness ==
    /\ Handled("_generate_fallback_action")
    /\ Args.request.action_type = "wave_dance"
    /\ Args.request.intensity = 10
    /\ Args.capabilities.bones = {"spine", "leftUpperArm"}
    /\ Result = <<>>

\* C9: for a desired bone that is neither available nor a hand bone, the
\* bone resolver returns at most one name: the earliest available entry of
\* desired's alternative list, or nothing when desired has no list or no
\* entry of it is available.
C9_FirstAlternative ==
    Handled("_map_bone_with_alternatives")
      /\ Args.target_bone \notin Args.available_bones
      /\ Args.target_bone \notin HandBones
    => /\ Len(Result) <= 1
       /\ Result = EarliestAlternative(Args.target_bone, Args.available_bones)

\* C9 witness: both alternatives of rightUpperArm available, the first taken.
C9_Witness ==
    /\ Handled("_map_bone_with_alternatives")
    /\ Args.target_bone = "rightUpperArm"
    /\ Args.available_bones = {"rightArm", "rightShoulder"}
    /\ Result = <<"rightArm">>

\* C10: for a hand bone with has_finger_bones true the result is the primary
\* resolution followed by the available finger joints of that hand's side in
\* digit-major, joint-minor order, whether or not the primary resolution
\* found a bone; without the flag, or for another bone, nothing is appended.
C10_FingerAugmentation ==
    Handled("_map_bone_with_alternatives") =>
        LET target == Args.target_bone
            available == Args.available_bones
            primary == IF target \in available THEN <<target>>
                       ELSE EarliestAlternative(target, available)
            side == IF target = "rightHand" THEN "right" ELSE "left"
        IN  IF target \in HandBones /\ Args.capabilities.has_finger_bones
            THEN Result = primary \o AvailableJoints(side, available)
            ELSE Result = primary

\* C10 witness: no primary bone, two joints of the right hand in digit-major
\* order, the left hand's joint left out.
C10_Witness ==
    /\ Handled("_map_bone_with_alternatives")
    /\ Args.target_bone = "rightHand"
    /\ Args.available_bones = {"rightThumb2", "rightIndex1", "leftThumb1"}
    /\ Args.capabilities.has_finger_bones
    /\ Result = <<"rightThumb2", "rightIndex1">>

====
